---- MODULE Spec2Model ----
(***************************************************************************)
(* The agentic control loop of src/core/agent.ts (class Agent): the        *)
(* conversation history, the approval gate of executeToolCall, the         *)
(* cooperative interruption and the iteration ceiling of chat.             *)
(*                                                                         *)
(* One action models the code between two suspension points (await) of     *)
(* chat: the host can call interrupt, setSessionAutoApprove and            *)
(* clearHistory only while chat is suspended or has returned.  The only    *)
(* position that is not a suspension point is "toolLoop", the head of the  *)
(* for-loop over message.tool_calls.                                       *)
(*                                                                         *)
(* A tool-call request is read by the loop when the for-loop reaches it    *)
(* (agent.ts:544, 552); the model draws its name and raw arguments at      *)
(* that point, and the history keeps the request's id.                     *)
(*                                                                         *)
(* The backend is either "free" (any answer, within MaxEvents), or the     *)
(* scripted backend "alwaysToolCall" that answers every request of one     *)
(* turn with one list_files call, or the scripted backend "alwaysFail"     *)
(* whose every request of one turn fails with an error other than 401;     *)
(* the scripted backends drive the loop to its ceiling.                    *)
(*                                                                         *)
(* ToolSpec explores the executors readFile, editFile and deleteFile of    *)
(* src/tools/tools.ts over a small file system, CommandSpec the executors  *)
(* executeCommand, createTasks and updateTasks; OpenHostSpec adds a host   *)
(* that calls chat while a chat call is in progress; FairSpec is Spec      *)
(* with every awaited operation completing.                                *)
(***************************************************************************)
EXTENDS Integers, Sequences, FiniteSets, TLC

\* ---------------------------------------------------------------- bounds
\* MaxEvents bounds the inputs of a session: chat calls, backend answers
\* with tool calls, backend failures, interrupt calls and approval
\* callbacks that throw, taken together.
MaxEvents == 3
MaxBatch == 2
MaxContinues == 1
MaxToolCalls == 3

\* ------------------------------------------------------ program constants
maxIterations == 50

APPROVAL_REQUIRED_TOOLS == {"create_file", "edit_file"}

DANGEROUS_TOOLS == {"delete_file", "execute_command"}

SAFE_TOOLS == {"read_file", "list_files", "search_files", "create_tasks", "update_tasks"}

TOOL_REGISTRY == SAFE_TOOLS \cup APPROVAL_REQUIRED_TOOLS \cup DANGEROUS_TOOLS

\* ------------------------------------------------------------------ state
VARIABLES
    messages,               \* Agent.messages
    sessionAutoApprove,     \* Agent.sessionAutoApprove
    isInterrupted,          \* Agent.isInterrupted
    currentAbortController, \* "null", "fresh" or "aborted"
    client,                 \* Agent.client is set
    requestCount,           \* Agent.requestCount
    onToolApproval,         \* callback registered
    onError,                \* callback registered
    onMaxIterations,        \* callback registered
    readFiles,              \* the ReadSet of the tool layer (resolved paths)
    files,                  \* the file system: resolved path -> entry
    toolResult,             \* the ToolResult of the last executor call
    toolCalls,              \* executor calls counted against MaxToolCalls
    processCwd,             \* process.cwd(), a resolved path
    originalCwd,            \* executeCommand: let originalCwd, <<>> when undefined
    commandPc,              \* executeCommand: "none", or "running" at execAsync
    currentTaskList,        \* the task list of create_tasks / update_tasks
    pc2,                    \* position of a chat call made during a chat call
    onFinalMessageCalls,    \* invocations of the onFinalMessage callback
    pc,                     \* position of chat
    iteration,              \* chat: let iteration
    batch,                  \* chat: message.tool_calls (ids)
    idx,                    \* chat: position of the for-loop in batch
    toolName,               \* executeToolCall: toolName (prefix stripped)
    toolArgs,               \* executeToolCall: raw arguments of the call
    canAutoApprove,         \* executeToolCall: const canAutoApprove
    approval,               \* executeToolCall: state of the approval request
    gate,                   \* executeToolCall at the gate: toolCall and the
                            \* grant of approvalResult; kept after a turn that
                            \* an interruption at the gate ended
    pendingTools,           \* onToolStart invocations not yet followed by onToolEnd
    result,                 \* the last value returned by executeToolCall
    outcome,                \* how the last chat call ended
    script,                 \* the backend: "free", "alwaysToolCall", "alwaysFail"
    hasContext,             \* .groq/context.md existed at construction
    nextId,                 \* next tool-call id the backend hands out
    turns,                  \* chat calls so far
    events,                 \* inputs counted against MaxEvents
    continues,              \* ceiling prompts answered with true
    sincePrompt             \* backend requests since turn start / last prompt

\* ------------------------------------------------------------------ paths
\* A name is a sequence of characters, a resolved path the sequence of its
\* names (the root directory is <<>>), a text the sequence of its
\* characters.
W == <<"w">>

WX == <<"w", "x">>

F == <<"f">>

D == <<"d">>

G == <<"g">>

E == <<"e">>

Missing == <<"m">>

Dot == <<".">>

DotDot == <<".", ".">>

\* process.cwd(): the directory /w
cwd == <<W>>

\* A path argument as a tool receives it: absolute or relative, and the
\* names between its separators.
PathArg(abs, segs) == [abs |-> abs, segs |-> segs]

\* The empty text (falsy in a condition); it resolves to the working
\* directory.
NoPath == PathArg(FALSE, <<>>)

\* path.resolve for one argument: "." is dropped, ".." removes the last
\* name (the root has no parent), a relative path starts at process.cwd().
RECURSIVE Normalize(_, _)
Normalize(acc, segs) ==
    IF segs = <<>> THEN acc
    ELSE IF Head(segs) = Dot THEN Normalize(acc, Tail(segs))
    ELSE IF Head(segs) = DotDot
         THEN Normalize(IF acc = <<>> THEN acc ELSE SubSeq(acc, 1, Len(acc) - 1), Tail(segs))
    ELSE Normalize(Append(acc, Head(segs)), Tail(segs))

resolve(filePath) ==
    IF filePath.abs THEN Normalize(<<>>, filePath.segs)
    ELSE Normalize(processCwd, filePath.segs)

\* The text of a resolved path: "/" for the root, else "/" before each name.
RECURSIVE PathString(_)
PathString(p) ==
    IF p = <<>> THEN <<"/">>
    ELSE IF Len(p) = 1 THEN <<"/">> \o p[1]
    ELSE PathString(SubSeq(p, 1, Len(p) - 1)) \o <<"/">> \o p[Len(p)]

\* String.prototype.startsWith
startsWith(text, prefix) ==
    Len(prefix) <= Len(text) /\ SubSeq(text, 1, Len(prefix)) = prefix

\* ------------------------------------------------- inputs of the backend
\* A tool name as the backend emits it: <<namespace prefix, rest>>; the
\* name is the concatenation of the two.
Namespaces == {"", "repo_browser."}

BaseNames == TOOL_REGISTRY \cup {"frobnicate"}

ToolNames == Namespaces \X BaseNames

\* Raw argument texts: one that JSON.parse rejects, one object without
\* file_path, one object with file_path "f" (written f1), one object with
\* file_path "f" and old_text "c".
RawArguments == {"truncated", "{}", "{file_path:f1}", "{file_path:f1,old_text:c}"}

\* The requests the backend emits: file_path is given to the file tools.
ToolCallInputs ==
    {c \in ToolNames \X RawArguments :
        /\ c[2] = "{file_path:f1}" => c[1][2] \in {"read_file", "edit_file"}
        /\ c[2] = "{file_path:f1,old_text:c}" => c[1][2] = "edit_file"}

\* The callbacks a host registers with setToolCallbacks: all of them or
\* none.
HostConfigs == {<<TRUE, TRUE, TRUE>>, <<FALSE, FALSE, FALSE>>}

vars == <<messages, sessionAutoApprove, isInterrupted, currentAbortController,
          client, requestCount, onToolApproval, onError, onMaxIterations,
          readFiles, pc, iteration, batch, idx, toolName, toolArgs,
          canAutoApprove, approval, result, outcome, script, hasContext,
          nextId, turns, events, continues, sincePrompt, files, toolResult,
          toolCalls, pc2, onFinalMessageCalls, gate, pendingTools, processCwd,
          originalCwd, commandPc, currentTaskList>>

toolLayer == <<files, toolResult, toolCalls, processCwd, originalCwd, commandPc,
               currentTaskList>>

commandState == <<processCwd, originalCwd, commandPc>>

callbacks == <<onToolApproval, onError, onMaxIterations>>

\* setToolCallbacks registers onToolStart and onToolEnd together with
\* onToolApproval.
onToolStart == onToolApproval

onToolEnd == onToolApproval

environment == <<script, hasContext>>

\* ------------------------------------------------------------- messages
NoCalls == <<>>

Message(role, content, calls, id) ==
    [role |-> role, content |-> content, tool_calls |-> calls, tool_call_id |-> id]

SystemNote(content) == Message("system", content, NoCalls, 0)

NoName == <<"", "">>

\* An onToolApproval exchange: toolCall.function.name of the call and the
\* autoApproveSession field of the answer (false while it is pending).
Gate(name, autoApproveSession) ==
    [call |-> name, autoApproveSession |-> autoApproveSession]

NoGate == Gate(NoName, FALSE)

\* Variant of ParseOk: every argument text is taken to deserialize.
ParseOk_always(raw) == TRUE

\* JSON.parse(toolCall.function.arguments) succeeds
ParseOk(raw) == raw # "truncated"

\* toolArgs.file_path, "" when absent
FilePath(raw) ==
    IF raw \in {"{file_path:f1}", "{file_path:f1,old_text:c}"}
    THEN PathArg(FALSE, <<F>>) ELSE NoPath

\* toolArgs.old_text, "" when absent
OldText(raw) == IF raw = "{file_path:f1,old_text:c}" THEN <<"c">> ELSE <<>>

\* Variant of StripPrefix: the name is used as the backend sent it.
StripPrefix_keepsPrefix(name) == name

\* toolName.startsWith('repo_browser.') ? toolName.substring(...) : toolName
StripPrefix(name) == IF name[1] = "repo_browser." THEN <<"", name[2]>> ELSE name

IsDangerous(name) == name[1] = "" /\ name[2] \in DANGEROUS_TOOLS

RequiresApproval(name) == name[1] = "" /\ name[2] \in APPROVAL_REQUIRED_TOOLS

\* Variants of NeedsApproval: the dangerous list forgotten; every tool gated.
NeedsApproval_listedOnly(name) == RequiresApproval(name)

NeedsApproval_always(name) == TRUE

NeedsApproval(name) == IsDangerous(name) \/ RequiresApproval(name)

\* Variant of CanAutoApprove: standing approval is never honoured.
CanAutoApprove_never(name) == FALSE

CanAutoApprove(name) == RequiresApproval(name) /\ ~IsDangerous(name) /\ sessionAutoApprove

\* Variant of validateReadBeforeEdit: no tracker is consulted.
validateReadBeforeEdit_noTracking(filePath) == TRUE

validateReadBeforeEdit(filePath) == resolve(filePath) \in readFiles

\* Variant of NoCallbackApproval: a missing callback lets the call through.
NoCallbackApproval_failOpen == TRUE

\* approvalResult = { approved: false } when no onToolApproval is registered
NoCallbackApproval == FALSE

InRegistry(name) == name[1] = "" /\ name[2] \in TOOL_REGISTRY

UserRejected(res) == res \in {"canceled", "interrupted"}

\* Variant of ToolMessage: the tool_call_id is left out.
ToolMessage_noId(id, res) ==
    Message("tool", IF UserRejected(res) THEN "userRejected" ELSE "result", NoCalls, 0)

ToolMessage(id, res) ==
    Message("tool", IF UserRejected(res) THEN "userRejected" ELSE "result", NoCalls, id)

\* Variant of InitialMessages: the context message is pushed whether or not
\* the file exists.
InitialMessages_alwaysContext ==
    <<SystemNote("systemMessage"), SystemNote("projectContext")>>

InitialMessages ==
    IF hasContext
    THEN <<SystemNote("systemMessage"), SystemNote("projectContext")>>
    ELSE <<SystemNote("systemMessage")>>

\* ------------------------------------------------------------ file system
LF == "\n"

File(content) == [kind |-> "file", content |-> content]

Directory == [kind |-> "dir", content |-> <<>>]

Absent == [kind |-> "absent", content |-> <<>>]

\* The paths the file system has entries for: /, /w, /w/f, /w/d, /w/d/g,
\* /wx, /wx/f and /e.
FsNodes == {<<>>, <<W>>, <<W, F>>, <<W, D>>, <<W, D, G>>, <<WX>>, <<WX, F>>, <<E>>}

\* The contents /w/f starts with: "a" once, "a" twice on two lines, no "a".
InitialContents == {<<"a", "b">>, <<"a", LF, "a">>, <<"b">>}

InitialFiles(content) ==
    [p \in FsNodes |->
        IF p = <<W, F>> THEN File(content)
        ELSE IF p \in {<<W, D, G>>, <<WX, F>>, <<E>>} THEN File(<<"a">>)
        ELSE Directory]

\* The path arguments of the executors: f, /w/f, ., the empty text, d, d/g,
\* m (no such file), ../wx/f, ../wx, /e and ..
PathArgs ==
    {PathArg(FALSE, <<F>>), PathArg(TRUE, <<W, F>>), PathArg(FALSE, <<Dot>>), NoPath,
     PathArg(FALSE, <<D>>), PathArg(FALSE, <<D, G>>), PathArg(FALSE, <<Missing>>),
     PathArg(FALSE, <<DotDot, WX, F>>), PathArg(FALSE, <<DotDot, WX>>),
     PathArg(TRUE, <<E>>), PathArg(FALSE, <<DotDot>>)}

OldTexts == {<<"a">>, <<"b">>}

NewTexts == {<<"c">>}

\* An absent optional argument.
undefined == -1

StartLines == {undefined, 1, 3}

EndLines == {undefined, 1}

\* The entry of the file system at a resolved path.
Entry(fs, p) == IF p \in DOMAIN fs THEN fs[p] ELSE Absent

\* q lies below the directory p.
Descendant(p, q) == Len(p) < Len(q) /\ SubSeq(q, 1, Len(p)) = p

\* fs.promises.readdir(p) is not empty
HasItems(fs, p) ==
    \E q \in DOMAIN fs : Len(q) = Len(p) + 1 /\ Descendant(p, q) /\ fs[q].kind # "absent"

\* pattern occurs in text at position i
OccursAt(text, pattern, i) ==
    /\ i + Len(pattern) - 1 <= Len(text)
    /\ SubSeq(text, i, i + Len(pattern) - 1) = pattern

\* String.prototype.indexOf, 1-based; 0 when pattern does not occur
indexOf(text, pattern) ==
    IF \E i \in 1..Len(text) : OccursAt(text, pattern, i)
    THEN CHOOSE i \in 1..Len(text) :
            OccursAt(text, pattern, i) /\ \A j \in 1..(i - 1) : ~OccursAt(text, pattern, j)
    ELSE 0

\* String.prototype.split with a non-empty separator
RECURSIVE split(_, _)
split(text, separator) ==
    LET i == indexOf(text, separator) IN
    IF i = 0 THEN <<text>>
    ELSE <<SubSeq(text, 1, i - 1)>>
            \o split(SubSeq(text, i + Len(separator), Len(text)), separator)

\* Array.prototype.join
RECURSIVE join(_, _)
join(pieces, separator) ==
    IF Len(pieces) = 1 THEN pieces[1]
    ELSE pieces[1] \o separator \o join(Tail(pieces), separator)

\* String.prototype.replace with a text pattern: the first occurrence
replace(text, pattern, replacement) ==
    LET i == indexOf(text, pattern) IN
    IF i = 0 THEN text
    ELSE SubSeq(text, 1, i - 1) \o replacement
            \o SubSeq(text, i + Len(pattern), Len(text))

\* createToolResponse(success, ..., error)
ToolResult(success, error) == [success |-> success, error |-> error]

NoResult == ToolResult(FALSE, "none")

\* writeFile(filePath, content, force, backup) of utils/file-ops: the file
\* at the path holds the content afterwards.
writeFile(fs, filePath, content) == [fs EXCEPT ![resolve(filePath)] = File(content)]

\* command_type values: one the executor accepts, one it does not.
CommandTypes == {"bash", "perl"}

\* How the child process of execAsync ends.
CommandOutcomes == {"success", "exit", "timeout"}

\* A task and a task update.
Task(id, status) == [id |-> id, status |-> status]

\* currentTaskList: null, or the stored list.
NoTaskList == [exists |-> FALSE, tasks |-> <<>>]

TaskList(tasks) == [exists |-> TRUE, tasks |-> tasks]

\* The task lists create_tasks is called with: a valid one, and one whose
\* second task has no id.
TaskLists ==
    {<<Task("t1", "pending"), Task("t2", "pending")>>,
     <<Task("t1", "pending"), Task("", "pending")>>}

\* The updates update_tasks is called with: valid ones, an unknown id, an
\* invalid status and a missing id; lists of one or two updates.
TaskUpdates ==
    {Task("t1", "completed"), Task("t2", "completed"), Task("zz", "completed"),
     Task("t1", "bogus"), Task("", "completed")}

TaskUpdateLists ==
    {<<u>> : u \in TaskUpdates} \cup {<<u, v>> : <<u, v>> \in TaskUpdates \X TaskUpdates}

\* The for-loop of updateTasks over the remaining updates: the tasks as
\* the loop leaves them and the error it returned with ("" when none).
RECURSIVE ApplyUpdates(_, _)
ApplyUpdates(tasks, updates) ==
    IF updates = <<>> THEN [tasks |-> tasks, error |-> ""]
    ELSE LET update == Head(updates)
             found == {i \in 1..Len(tasks) : tasks[i].id = update.id}
         IN  IF update.id = "" \/ update.status = ""
             THEN [tasks |-> tasks, error |-> "Task update missing required fields"]
             ELSE IF update.status \notin {"pending", "in_progress", "completed"}
             THEN [tasks |-> tasks, error |-> "Invalid status"]
             ELSE IF found = {}
             THEN [tasks |-> tasks, error |-> "Task not found"]
             ELSE LET i == CHOOSE i \in found : \A j \in found : i <= j
                  IN  ApplyUpdates([tasks EXCEPT ![i].status = update.status],
                                   Tail(updates))

AwaitPoints == {"awaitBackend", "awaitApproval", "executing", "awaitOnError", "awaitMaxIterations"}

\* The Agent as Agent.create returns it.
AgentCreated ==
    /\ hasContext \in BOOLEAN
    /\ script \in {"free", "alwaysToolCall", "alwaysFail"}
    /\ script # "free" => ~hasContext
    /\ \E host \in HostConfigs :
          /\ onToolApproval = host[1]
          /\ onError = host[2]
          /\ onMaxIterations = host[3]
    /\ messages = InitialMessages
    /\ sessionAutoApprove = FALSE
    /\ isInterrupted = FALSE
    /\ currentAbortController = "null"
    /\ client = FALSE
    /\ requestCount = 0
    /\ readFiles = {}
    /\ pc = "idle"
    /\ iteration = 0
    /\ batch = <<>>
    /\ idx = 0
    /\ toolName = NoName
    /\ toolArgs = ""
    /\ canAutoApprove = FALSE
    /\ approval = "notAsked"
    /\ gate = NoGate
    /\ pendingTools = 0
    /\ result = "none"
    /\ outcome = "none"
    /\ nextId = 1
    /\ turns = 0
    /\ events = 0
    /\ continues = 0
    /\ sincePrompt = 0
    /\ pc2 = "none"
    /\ onFinalMessageCalls = 0

\* The tool layer when its module is loaded.
ToolsLoaded ==
    /\ toolResult = NoResult
    /\ toolCalls = 0
    /\ processCwd = cwd
    /\ originalCwd = <<>>
    /\ commandPc = "none"
    /\ currentTaskList = NoTaskList

\* The control loop is explored over one fixed file system.
Init ==
    /\ AgentCreated
    /\ files = InitialFiles(<<"a", "b">>)
    /\ ToolsLoaded

\* The local variables of executeToolCall go out of scope when it returns.
CallLocalsReset ==
    /\ toolName' = NoName
    /\ toolArgs' = ""
    /\ canAutoApprove' = FALSE

\* chat returns (or throws) with the given outcome.
Return(how) ==
    /\ pc' = "idle"
    /\ outcome' = how
    /\ batch' = <<>>
    /\ idx' = 0

\* Variants of LoopHead: the interruption flag is not checked; the ceiling
\* is compared with <=.
LoopHead_noInterruptCheck(iter, interrupted, since) ==
    /\ iteration' = iter
    /\ IF iter < maxIterations
       THEN /\ requestCount' = requestCount + 1
            /\ sincePrompt' = since + 1
            /\ currentAbortController' = "fresh"
            /\ pc' = "awaitBackend"
            /\ batch' = <<>>
            /\ idx' = 0
            /\ outcome' = outcome
       ELSE /\ IF onMaxIterations
               THEN /\ pc' = "awaitMaxIterations"
                    /\ batch' = <<>>
                    /\ idx' = 0
                    /\ outcome' = outcome
               ELSE Return("maxIterations")
            /\ requestCount' = requestCount
            /\ sincePrompt' = since
            /\ currentAbortController' = currentAbortController

LoopHead_ceilingInclusive(iter, interrupted, since) ==
    /\ iteration' = iter
    /\ IF iter <= maxIterations
       THEN IF interrupted
            THEN /\ currentAbortController' = "null"
                 /\ Return("interrupted")
                 /\ requestCount' = requestCount
                 /\ sincePrompt' = since
            ELSE /\ requestCount' = requestCount + 1
                 /\ sincePrompt' = since + 1
                 /\ currentAbortController' = "fresh"
                 /\ pc' = "awaitBackend"
                 /\ batch' = <<>>
                 /\ idx' = 0
                 /\ outcome' = outcome
       ELSE /\ IF onMaxIterations
               THEN /\ pc' = "awaitMaxIterations"
                    /\ batch' = <<>>
                    /\ idx' = 0
                    /\ outcome' = outcome
               ELSE Return("maxIterations")
            /\ requestCount' = requestCount
            /\ sincePrompt' = since
            /\ currentAbortController' = currentAbortController

\* The head of the two while-loops, reached with iteration = iter while
\* the interruption flag is `interrupted`; `since` counts the requests
\* already issued since the turn started or the last ceiling prompt.
LoopHead(iter, interrupted, since) ==
    /\ iteration' = iter
    /\ IF iter < maxIterations
       THEN IF interrupted
            THEN /\ currentAbortController' = "null"
                 /\ Return("interrupted")
                 /\ requestCount' = requestCount
                 /\ sincePrompt' = since
            ELSE /\ requestCount' = requestCount + 1
                 /\ sincePrompt' = since + 1
                 /\ currentAbortController' = "fresh"
                 /\ pc' = "awaitBackend"
                 /\ batch' = <<>>
                 /\ idx' = 0
                 /\ outcome' = outcome
       ELSE /\ IF onMaxIterations
               THEN /\ pc' = "awaitMaxIterations"
                    /\ batch' = <<>>
                    /\ idx' = 0
                    /\ outcome' = outcome
               ELSE Return("maxIterations")
            /\ requestCount' = requestCount
            /\ sincePrompt' = since
            /\ currentAbortController' = currentAbortController

\* Variant of ChatStart: the interruption flag is not reset at the start
\* of the turn.
ChatStart_keepsInterrupt(key) ==
    /\ pc = "idle"
    /\ events < MaxEvents
    /\ script # "free" => turns = 0
    /\ events' = events + 1
    /\ turns' = turns + 1
    /\ isInterrupted' = isInterrupted
    /\ result' = "none"
    /\ approval' = "notAsked"
    /\ gate' = NoGate
    /\ UNCHANGED pendingTools
    /\ IF ~client /\ ~key
       THEN /\ Return("raised")
            /\ UNCHANGED <<messages, client, iteration, requestCount, sincePrompt,
                           currentAbortController>>
       ELSE /\ client' = TRUE
            /\ messages' = Append(messages, Message("user", "userInput", NoCalls, 0))
            /\ LoopHead(0, isInterrupted, 0)
    /\ UNCHANGED <<sessionAutoApprove, callbacks, readFiles, toolName, toolArgs,
                   canAutoApprove, environment, toolLayer, pc2, onFinalMessageCalls, nextId, continues>>

\* chat(userInput), up to its first backend request.  key: an API key is
\* found in the environment or the config file.
ChatStart(key) ==
    /\ pc = "idle"
    /\ events < MaxEvents
    /\ script # "free" => turns = 0
    /\ events' = events + 1
    /\ turns' = turns + 1
    /\ isInterrupted' = FALSE
    /\ result' = "none"
    /\ approval' = "notAsked"
    /\ gate' = NoGate
    /\ UNCHANGED pendingTools
    /\ IF ~client /\ ~key
       THEN /\ Return("raised")
            /\ UNCHANGED <<messages, client, iteration, requestCount, sincePrompt,
                           currentAbortController>>
       ELSE /\ client' = TRUE
            /\ messages' = Append(messages, Message("user", "userInput", NoCalls, 0))
            /\ LoopHead(0, FALSE, 0)
    /\ UNCHANGED <<sessionAutoApprove, callbacks, readFiles, toolName, toolArgs,
                   canAutoApprove, environment, toolLayer, pc2, onFinalMessageCalls, nextId, continues>>

\* The backend answers with n tool-call requests (message.tool_calls is an
\* array, possibly empty): lines 373-387.
BackendToolCalls(n) ==
    /\ pc = "awaitBackend"
    /\ currentAbortController = "fresh"
    /\ script # "alwaysFail"
    /\ IF script = "free"
       THEN events < MaxEvents /\ events' = events + 1
       ELSE n = 1 /\ events' = events
    /\ nextId' = nextId + n
    /\ batch' = [i \in 1..n |-> nextId + i - 1]
    /\ idx' = 1
    /\ messages' = Append(messages, Message("assistant", "toolCalls", batch', 0))
    /\ pc' = "toolLoop"
    /\ UNCHANGED <<sessionAutoApprove, isInterrupted, currentAbortController, client,
                   requestCount, callbacks, readFiles, iteration, toolName, toolArgs,
                   canAutoApprove, approval, gate, pendingTools, result, outcome, environment, toolLayer, pc2, onFinalMessageCalls, turns, continues, sincePrompt>>

\* The backend answers without tool calls: lines 423-444.
BackendFinal ==
    /\ pc = "awaitBackend"
    /\ currentAbortController = "fresh"
    /\ script = "free"
    /\ messages' = Append(messages, Message("assistant", "final", NoCalls, 0))
    /\ currentAbortController' = "null"
    /\ Return("final")
    /\ onFinalMessageCalls' = onFinalMessageCalls + 1
    /\ UNCHANGED <<sessionAutoApprove, isInterrupted, client, requestCount, callbacks,
                   readFiles, iteration, toolName, toolArgs, canAutoApprove, approval, gate, pendingTools,
                   result, environment, toolLayer, pc2, nextId, turns, events, continues, sincePrompt>>

\* Variant of BackendAborted: the abort error is handled like any other
\* failure of the request.
BackendAborted_asError ==
    /\ pc = "awaitBackend"
    /\ currentAbortController = "aborted"
    /\ currentAbortController' = "null"
    /\ messages' = Append(messages, SystemNote("errorNote"))
    /\ Return("interrupted")
    /\ UNCHANGED <<sessionAutoApprove, isInterrupted, client, requestCount,
                   callbacks, readFiles, iteration, toolName, toolArgs, canAutoApprove,
                   approval, gate, pendingTools, result, environment, toolLayer, pc2, onFinalMessageCalls, nextId, turns, events, continues, sincePrompt>>

\* The aborted request rejects with an abort error: lines 446-458.
BackendAborted ==
    /\ pc = "awaitBackend"
    /\ currentAbortController = "aborted"
    /\ currentAbortController' = "null"
    /\ Return("interrupted")
    /\ UNCHANGED <<messages, sessionAutoApprove, isInterrupted, client, requestCount,
                   callbacks, readFiles, iteration, toolName, toolArgs, canAutoApprove,
                   approval, gate, pendingTools, result, environment, toolLayer, pc2, onFinalMessageCalls, nextId, turns, events, continues, sincePrompt>>

\* Variant of BackendAuthError: status 401 is handled like any other
\* failure of the request.
BackendAuthError_retryable ==
    /\ pc = "awaitBackend"
    /\ currentAbortController = "fresh"
    /\ script = "free"
    /\ currentAbortController' = "null"
    /\ IF onError
       THEN /\ pc' = "awaitOnError"
            /\ UNCHANGED <<messages, batch, idx, outcome>>
       ELSE /\ messages' = Append(messages, SystemNote("errorNote"))
            /\ Return("error")
    /\ UNCHANGED <<sessionAutoApprove, isInterrupted, client, requestCount,
                   callbacks, readFiles, iteration, toolName, toolArgs, canAutoApprove,
                   approval, gate, pendingTools, result, environment, toolLayer, pc2, onFinalMessageCalls, nextId, turns, events, continues, sincePrompt>>

\* The request fails with status 401: lines 490-493, chat throws.
BackendAuthError ==
    /\ pc = "awaitBackend"
    /\ currentAbortController = "fresh"
    /\ script = "free"
    /\ currentAbortController' = "null"
    /\ Return("raised")
    /\ UNCHANGED <<messages, sessionAutoApprove, isInterrupted, client, requestCount,
                   callbacks, readFiles, iteration, toolName, toolArgs, canAutoApprove,
                   approval, gate, pendingTools, result, environment, toolLayer, pc2, onFinalMessageCalls, nextId, turns, events, continues, sincePrompt>>

\* Variant of BackendError: without an onError callback the failure ends
\* the turn.
BackendError_endsTurn ==
    /\ pc = "awaitBackend"
    /\ currentAbortController = "fresh"
    /\ script # "alwaysToolCall"
    /\ IF script = "free"
       THEN events < MaxEvents /\ events' = events + 1
       ELSE events' = events
    /\ currentAbortController' = "null"
    /\ IF onError
       THEN /\ pc' = "awaitOnError"
            /\ UNCHANGED <<messages, batch, idx, outcome>>
       ELSE /\ messages' = Append(messages, SystemNote("errorNote"))
            /\ Return("error")
    /\ UNCHANGED <<iteration, requestCount, sincePrompt>>
    /\ UNCHANGED <<sessionAutoApprove, isInterrupted, client, callbacks, readFiles,
                   toolName, toolArgs, canAutoApprove, approval, gate, pendingTools, result, environment, toolLayer, pc2, onFinalMessageCalls,
                   nextId, turns, continues>>

\* The request fails with any other error: lines 495-521.
BackendError ==
    /\ pc = "awaitBackend"
    /\ currentAbortController = "fresh"
    /\ script # "alwaysToolCall"
    /\ IF script = "free"
       THEN events < MaxEvents /\ events' = events + 1
       ELSE events' = events
    /\ IF onError
       THEN /\ pc' = "awaitOnError"
            /\ currentAbortController' = "null"
            /\ UNCHANGED <<messages, iteration, requestCount, sincePrompt, batch, idx,
                           outcome>>
       ELSE /\ messages' = Append(messages, SystemNote("errorNote"))
            /\ LoopHead(iteration + 1, isInterrupted, sincePrompt)
    /\ UNCHANGED <<sessionAutoApprove, isInterrupted, client, callbacks, readFiles,
                   toolName, toolArgs, canAutoApprove, approval, gate, pendingTools, result, environment, toolLayer, pc2, onFinalMessageCalls,
                   nextId, turns, continues>>

\* Variant of OnErrorAnswer: the failure is recorded in the history also
\* when the user asks for a retry.
OnErrorAnswer_notesRetry(shouldRetry) ==
    /\ pc = "awaitOnError"
    /\ IF shouldRetry
       THEN /\ LoopHead(iteration + 1, isInterrupted, sincePrompt)
            /\ messages' = Append(messages, SystemNote("errorNote"))
       ELSE /\ messages' = Append(messages, SystemNote("noRetryNote"))
            /\ Return("error")
            /\ UNCHANGED <<iteration, requestCount, sincePrompt, currentAbortController>>
    /\ UNCHANGED <<sessionAutoApprove, isInterrupted, client, callbacks, readFiles,
                   toolName, toolArgs, canAutoApprove, approval, gate, pendingTools, result, environment, toolLayer, pc2, onFinalMessageCalls,
                   nextId, turns, events, continues>>

\* Variant of OnErrorAnswer: a declined retry ends the turn without a note.
OnErrorAnswer_silentStop(shouldRetry) ==
    /\ pc = "awaitOnError"
    /\ IF shouldRetry
       THEN /\ LoopHead(iteration + 1, isInterrupted, sincePrompt)
            /\ UNCHANGED messages
       ELSE /\ Return("error")
            /\ UNCHANGED <<messages, iteration, requestCount, sincePrompt,
                           currentAbortController>>
    /\ UNCHANGED <<sessionAutoApprove, isInterrupted, client, callbacks, readFiles,
                   toolName, toolArgs, canAutoApprove, approval, gate, pendingTools, result, environment, toolLayer, pc2, onFinalMessageCalls,
                   nextId, turns, events, continues>>

\* Variant of OnErrorAnswer: a retry does not count as an iteration.
OnErrorAnswer_retryUncounted(shouldRetry) ==
    /\ pc = "awaitOnError"
    /\ IF shouldRetry
       THEN /\ LoopHead(iteration, isInterrupted, sincePrompt)
            /\ UNCHANGED messages
       ELSE /\ messages' = Append(messages, SystemNote("noRetryNote"))
            /\ Return("error")
            /\ UNCHANGED <<iteration, requestCount, sincePrompt, currentAbortController>>
    /\ UNCHANGED <<sessionAutoApprove, isInterrupted, client, callbacks, readFiles,
                   toolName, toolArgs, canAutoApprove, approval, gate, pendingTools, result, environment, toolLayer, pc2, onFinalMessageCalls,
                   nextId, turns, events, continues>>

\* onError resolves: lines 497-509.
OnErrorAnswer(shouldRetry) ==
    /\ pc = "awaitOnError"
    /\ IF shouldRetry
       THEN /\ LoopHead(iteration + 1, isInterrupted, sincePrompt)
            /\ UNCHANGED messages
       ELSE /\ messages' = Append(messages, SystemNote("noRetryNote"))
            /\ Return("error")
            /\ UNCHANGED <<iteration, requestCount, sincePrompt, currentAbortController>>
    /\ UNCHANGED <<sessionAutoApprove, isInterrupted, client, callbacks, readFiles,
                   toolName, toolArgs, canAutoApprove, approval, gate, pendingTools, result, environment, toolLayer, pc2, onFinalMessageCalls,
                   nextId, turns, events, continues>>

\* Variant of RecordResult: a userRejected result does not end the turn.
RecordResult_noStop(res) ==
    /\ result' = res
    /\ CallLocalsReset
    /\ messages' = Append(messages, ToolMessage(batch[idx], res))
    /\ pc' = "toolLoop"
    /\ idx' = idx + 1
    /\ UNCHANGED <<batch, outcome>>
    /\ UNCHANGED <<iteration, requestCount, sincePrompt, currentAbortController>>

\* chat, lines 400-415: the result of executeToolCall for batch[idx] is
\* appended; a userRejected result ends the turn.
RecordResult(res) ==
    /\ result' = res
    /\ CallLocalsReset
    /\ IF UserRejected(res)
       THEN /\ messages' = messages \o <<ToolMessage(batch[idx], res), SystemNote("rejectNote")>>
            /\ Return("rejected")
       ELSE /\ messages' = Append(messages, ToolMessage(batch[idx], res))
            /\ pc' = "toolLoop"
            /\ idx' = idx + 1
            /\ UNCHANGED <<batch, outcome>>
    /\ UNCHANGED <<iteration, requestCount, sincePrompt, currentAbortController>>

\* executeToolCall suspends at an await.
Suspend(where, name, raw, auto, asked) ==
    /\ pc' = where
    /\ toolName' = name
    /\ toolArgs' = raw
    /\ canAutoApprove' = auto
    /\ approval' = asked
    /\ result' = "none"
    /\ UNCHANGED <<messages, batch, idx, outcome, iteration, requestCount, sincePrompt,
                   currentAbortController>>

\* The for-loop has passed the last request: lines 418-420.
BatchDone ==
    /\ pc = "toolLoop"
    /\ idx > Len(batch)
    /\ LoopHead(iteration + 1, isInterrupted, sincePrompt)
    /\ UNCHANGED <<messages, sessionAutoApprove, isInterrupted, client, callbacks,
                   readFiles, toolName, toolArgs, canAutoApprove, approval, gate, pendingTools, result,
                   environment, toolLayer, pc2, onFinalMessageCalls, nextId, turns, events, continues>>

\* The for-loop finds the interruption flag set: lines 391-396.
BatchInterrupted ==
    /\ pc = "toolLoop"
    /\ idx <= Len(batch)
    /\ isInterrupted
    /\ currentAbortController' = "null"
    /\ Return("interrupted")
    /\ UNCHANGED <<messages, sessionAutoApprove, isInterrupted, client, requestCount,
                   callbacks, readFiles, iteration, toolName, toolArgs, canAutoApprove,
                   approval, gate, pendingTools, result, environment, toolLayer, pc2, onFinalMessageCalls, nextId, turns, events, continues, sincePrompt>>

\* executeToolCall(batch[idx]) up to its first await or its return:
\* lines 541-628.
ExecuteToolCall(name, raw) ==
    /\ pc = "toolLoop"
    /\ idx <= Len(batch)
    /\ ~isInterrupted
    /\ script = "alwaysToolCall" => name = <<"", "list_files">> /\ raw = "{}"
    /\ LET tn == StripPrefix(name) IN
       IF ~ParseOk(raw)
       THEN /\ RecordResult("truncated")
            /\ approval' = "notAsked"
       ELSE IF tn = <<"", "edit_file">> /\ FilePath(raw) # NoPath
               /\ ~validateReadBeforeEdit(FilePath(raw))
       THEN /\ RecordResult("notRead")
            /\ approval' = "notAsked"
       ELSE IF NeedsApproval(tn) /\ ~CanAutoApprove(tn)
       THEN IF onToolApproval
            THEN IF isInterrupted
                 THEN /\ RecordResult("interrupted")
                      /\ approval' = "notAsked"
                 ELSE Suspend("awaitApproval", tn, raw, FALSE, "pending")
            ELSE IF NoCallbackApproval
                 THEN Suspend("executing", tn, raw, FALSE, "notAsked")
                 ELSE /\ RecordResult("canceled")
                      /\ approval' = "notAsked"
       ELSE Suspend("executing", tn, raw, CanAutoApprove(tn), "notAsked")
    /\ gate' = IF pc' = "awaitApproval" THEN Gate(name, FALSE) ELSE NoGate
    /\ pendingTools' = IF onToolStart /\ pc' \in {"awaitApproval", "executing"}
                       THEN pendingTools + 1 ELSE pendingTools
    /\ UNCHANGED <<sessionAutoApprove, isInterrupted, client, callbacks, readFiles,
                   environment, toolLayer, pc2, onFinalMessageCalls, nextId, turns, events, continues>>

\* Variant of ApprovalResolved: the interruption flag is not checked again
\* after the approval resolves.
ApprovalResolved_noRecheck(approved, autoApproveSession) ==
    /\ pc = "awaitApproval"
    /\ approval' = IF approved THEN "approved" ELSE "rejected"
    /\ gate' = IF isInterrupted THEN Gate(gate.call, autoApproveSession) ELSE NoGate
    /\ sessionAutoApprove' =
          IF autoApproveSession /\ RequiresApproval(toolName) /\ ~IsDangerous(toolName)
          THEN TRUE ELSE sessionAutoApprove
    /\ IF ~approved
       THEN RecordResult("canceled")
       ELSE /\ pc' = "executing"
            /\ UNCHANGED <<messages, batch, idx, outcome, iteration, requestCount,
                           sincePrompt, currentAbortController, toolName,
                           toolArgs, canAutoApprove, result>>
    /\ pendingTools' = IF onToolEnd /\ pc' # "executing"
                       THEN pendingTools - 1 ELSE pendingTools
    /\ UNCHANGED <<isInterrupted, client, callbacks, readFiles, environment, toolLayer, pc2, onFinalMessageCalls, nextId,
                   turns, events, continues>>

\* Variant of ApprovalResolved: the session grant is honoured for the
\* dangerous tools too.
ApprovalResolved_grantAnyTool(approved, autoApproveSession) ==
    /\ pc = "awaitApproval"
    /\ approval' = IF approved THEN "approved" ELSE "rejected"
    /\ gate' = IF isInterrupted THEN Gate(gate.call, autoApproveSession) ELSE NoGate
    /\ IF isInterrupted
       THEN /\ RecordResult("interrupted")
            /\ UNCHANGED sessionAutoApprove
       ELSE /\ sessionAutoApprove' =
                  IF autoApproveSession THEN TRUE ELSE sessionAutoApprove
            /\ IF ~approved
               THEN RecordResult("canceled")
               ELSE /\ pc' = "executing"
                    /\ UNCHANGED <<messages, batch, idx, outcome, iteration, requestCount,
                                   sincePrompt, currentAbortController, toolName,
                                   toolArgs, canAutoApprove, result>>
    /\ pendingTools' = IF onToolEnd /\ pc' # "executing"
                       THEN pendingTools - 1 ELSE pendingTools
    /\ UNCHANGED <<isInterrupted, client, callbacks, readFiles, environment, toolLayer, pc2, onFinalMessageCalls, nextId,
                   turns, events, continues>>

\* Variant of ApprovalResolved: the session grant is applied before the
\* interruption is looked at.
ApprovalResolved_grantFirst(approved, autoApproveSession) ==
    /\ pc = "awaitApproval"
    /\ approval' = IF approved THEN "approved" ELSE "rejected"
    /\ gate' = IF isInterrupted THEN Gate(gate.call, autoApproveSession) ELSE NoGate
    /\ IF isInterrupted
       THEN /\ RecordResult("interrupted")
            /\ sessionAutoApprove' =
                  IF autoApproveSession /\ RequiresApproval(toolName) /\ ~IsDangerous(toolName)
                  THEN TRUE ELSE sessionAutoApprove
       ELSE /\ sessionAutoApprove' =
                  IF autoApproveSession /\ RequiresApproval(toolName) /\ ~IsDangerous(toolName)
                  THEN TRUE ELSE sessionAutoApprove
            /\ IF ~approved
               THEN RecordResult("canceled")
               ELSE /\ pc' = "executing"
                    /\ UNCHANGED <<messages, batch, idx, outcome, iteration, requestCount,
                                   sincePrompt, currentAbortController, toolName,
                                   toolArgs, canAutoApprove, result>>
    /\ pendingTools' = IF onToolEnd /\ pc' # "executing"
                       THEN pendingTools - 1 ELSE pendingTools
    /\ UNCHANGED <<isInterrupted, client, callbacks, readFiles, environment, toolLayer, pc2, onFinalMessageCalls, nextId,
                   turns, events, continues>>

\* onToolApproval resolves with {approved, autoApproveSession}:
\* lines 598-628.
ApprovalResolved(approved, autoApproveSession) ==
    /\ pc = "awaitApproval"
    /\ approval' = IF approved THEN "approved" ELSE "rejected"
    /\ gate' = IF isInterrupted THEN Gate(gate.call, autoApproveSession) ELSE NoGate
    /\ IF isInterrupted
       THEN /\ RecordResult("interrupted")
            /\ UNCHANGED sessionAutoApprove
       ELSE /\ sessionAutoApprove' =
                  IF autoApproveSession /\ RequiresApproval(toolName) /\ ~IsDangerous(toolName)
                  THEN TRUE ELSE sessionAutoApprove
            /\ IF ~approved
               THEN RecordResult("canceled")
               ELSE /\ pc' = "executing"
                    /\ UNCHANGED <<messages, batch, idx, outcome, iteration, requestCount,
                                   sincePrompt, currentAbortController, toolName,
                                   toolArgs, canAutoApprove, result>>
    /\ pendingTools' = IF onToolEnd /\ pc' # "executing"
                       THEN pendingTools - 1 ELSE pendingTools
    /\ UNCHANGED <<isInterrupted, client, callbacks, readFiles, environment, toolLayer, pc2, onFinalMessageCalls, nextId,
                   turns, events, continues>>

\* onToolApproval throws (its promise rejects): the catch of lines
\* 637-640 returns a failure without userRejected and without onToolEnd.
\* A throwing callback is an input counted against MaxEvents.
ApprovalThrows ==
    /\ pc = "awaitApproval"
    /\ events < MaxEvents
    /\ events' = events + 1
    /\ approval' = "threw"
    /\ gate' = NoGate
    /\ RecordResult("threw")
    /\ UNCHANGED <<sessionAutoApprove, isInterrupted, client, callbacks, readFiles,
                   pendingTools, environment, toolLayer, pc2, onFinalMessageCalls,
                   nextId, turns, continues>>

\* executeTool(toolName, toolArgs) resolves: lines 627-635 and
\* tools.ts executeTool.
ExecutorDone(success) ==
    /\ pc = "executing"
    /\ success => InRegistry(toolName)
    /\ readFiles' = IF success /\ toolName = <<"", "read_file">> /\ FilePath(toolArgs) # NoPath
                    THEN readFiles \cup {resolve(FilePath(toolArgs))} ELSE readFiles
    /\ RecordResult(IF success THEN "success" ELSE "failure")
    /\ pendingTools' = IF onToolEnd THEN pendingTools - 1 ELSE pendingTools
    /\ gate' = NoGate
    /\ UNCHANGED <<sessionAutoApprove, isInterrupted, client, callbacks, approval,
                   environment, toolLayer, pc2, onFinalMessageCalls, nextId, turns, events, continues>>

\* Variant of OnMaxIterationsAnswer: the branch of an answer of false does
\* not return, so the outer loop comes back to the prompt.
OnMaxIterationsAnswer_asksAgain(shouldContinue) ==
    /\ pc = "awaitMaxIterations"
    /\ shouldContinue => continues < MaxContinues
    /\ IF shouldContinue
       THEN /\ continues' = continues + 1
            /\ LoopHead(0, isInterrupted, 0)
       ELSE UNCHANGED <<pc, batch, idx, outcome, continues, iteration, requestCount,
                        sincePrompt, currentAbortController>>
    /\ UNCHANGED <<messages, sessionAutoApprove, isInterrupted, client, callbacks,
                   readFiles, toolName, toolArgs, canAutoApprove, approval, gate, pendingTools, result,
                   environment, toolLayer, pc2, onFinalMessageCalls, nextId, turns, events>>

\* onMaxIterations resolves: lines 526-537.
OnMaxIterationsAnswer(shouldContinue) ==
    /\ pc = "awaitMaxIterations"
    /\ shouldContinue => continues < MaxContinues
    /\ IF shouldContinue
       THEN /\ continues' = continues + 1
            /\ LoopHead(0, isInterrupted, 0)
       ELSE /\ Return("maxIterations")
            /\ UNCHANGED <<continues, iteration, requestCount, sincePrompt,
                           currentAbortController>>
    /\ UNCHANGED <<messages, sessionAutoApprove, isInterrupted, client, callbacks,
                   readFiles, toolName, toolArgs, canAutoApprove, approval, gate, pendingTools, result,
                   environment, toolLayer, pc2, onFinalMessageCalls, nextId, turns, events>>

\* interrupt(): lines 244-258.
interrupt ==
    /\ pc \in AwaitPoints \cup {"idle"}
    /\ events < MaxEvents
    /\ events' = events + 1
    /\ isInterrupted' = TRUE
    /\ currentAbortController' =
          IF currentAbortController # "null" THEN "aborted" ELSE "null"
    /\ messages' = Append(messages, SystemNote("interruptNote"))
    /\ UNCHANGED <<sessionAutoApprove, client, requestCount, callbacks, readFiles, pc,
                   iteration, batch, idx, toolName, toolArgs, canAutoApprove, approval, gate, pendingTools,
                   result, outcome, environment, toolLayer, pc2, onFinalMessageCalls, nextId, turns, continues, sincePrompt>>

\* Variant of clearHistory: the session approval is cleared with the history.
clearHistory_resetsApproval ==
    /\ pc = "idle"
    /\ messages' = SelectSeq(messages, LAMBDA msg : msg.role = "system")
    /\ sessionAutoApprove' = FALSE
    /\ UNCHANGED <<isInterrupted, currentAbortController, client,
                   requestCount, callbacks, readFiles, pc, iteration, batch, idx,
                   toolName, toolArgs, canAutoApprove, approval, gate, pendingTools, result, outcome,
                   environment, toolLayer, pc2, onFinalMessageCalls, nextId, turns,
                   events, continues, sincePrompt>>

\* Variant of clearHistory: the set of read files is emptied with the
\* history.
clearHistory_forgetsReads ==
    /\ pc = "idle"
    /\ messages' = SelectSeq(messages, LAMBDA msg : msg.role = "system")
    /\ readFiles' = {}
    /\ UNCHANGED <<sessionAutoApprove, isInterrupted, currentAbortController, client,
                   requestCount, callbacks, pc, iteration, batch, idx,
                   toolName, toolArgs, canAutoApprove, approval, gate, pendingTools, result, outcome,
                   environment, toolLayer, pc2, onFinalMessageCalls, nextId, turns,
                   events, continues, sincePrompt>>

\* clearHistory(): lines 217-220.  The host offers /clear only while no
\* turn is in progress.
clearHistory ==
    /\ pc = "idle"
    /\ messages' = SelectSeq(messages, LAMBDA msg : msg.role = "system")
    /\ UNCHANGED <<sessionAutoApprove, isInterrupted, currentAbortController, client,
                   requestCount, callbacks, readFiles, pc, iteration, batch, idx,
                   toolName, toolArgs, canAutoApprove, approval, gate, pendingTools, result, outcome,
                   environment, toolLayer, pc2, onFinalMessageCalls, nextId, turns, events, continues,
                   sincePrompt>>

\* setSessionAutoApprove(enabled): lines 240-242.
setSessionAutoApprove(enabled) ==
    /\ pc \in AwaitPoints \cup {"idle"}
    /\ sessionAutoApprove' = enabled
    /\ UNCHANGED <<messages, isInterrupted, currentAbortController, client,
                   requestCount, callbacks, readFiles, pc, iteration, batch, idx,
                   toolName, toolArgs, canAutoApprove, approval, gate, pendingTools, result, outcome,
                   environment, toolLayer, pc2, onFinalMessageCalls, nextId, turns, events, continues,
                   sincePrompt>>

Next ==
    \/ \E key \in BOOLEAN : ChatStart(key)
    \/ \E n \in 0..MaxBatch : BackendToolCalls(n)
    \/ BackendFinal
    \/ BackendAborted
    \/ BackendAuthError
    \/ BackendError
    \/ \E shouldRetry \in BOOLEAN : OnErrorAnswer(shouldRetry)
    \/ BatchDone
    \/ BatchInterrupted
    \/ \E c \in ToolCallInputs : ExecuteToolCall(c[1], c[2])
    \/ \E approved \in BOOLEAN, grant \in BOOLEAN : ApprovalResolved(approved, grant)
    \/ ApprovalThrows
    \/ \E success \in BOOLEAN : ExecutorDone(success)
    \/ \E shouldContinue \in BOOLEAN : OnMaxIterationsAnswer(shouldContinue)
    \/ interrupt
    \/ clearHistory
    \/ \E enabled \in BOOLEAN : setSessionAutoApprove(enabled)

Spec == Init /\ [][Next]_vars

\* The steps chat takes when an operation it awaits completes: the backend
\* request, onError, the approval, the executor, onMaxIterations; and the
\* steps it takes without waiting.
LoopStep ==
    \/ \E n \in 0..MaxBatch : BackendToolCalls(n)
    \/ BackendFinal
    \/ BackendAborted
    \/ BackendAuthError
    \/ BackendError
    \/ \E shouldRetry \in BOOLEAN : OnErrorAnswer(shouldRetry)
    \/ BatchDone
    \/ BatchInterrupted
    \/ \E c \in ToolCallInputs : ExecuteToolCall(c[1], c[2])
    \/ \E approved \in BOOLEAN, grant \in BOOLEAN : ApprovalResolved(approved, grant)
    \/ ApprovalThrows
    \/ \E success \in BOOLEAN : ExecutorDone(success)
    \/ \E shouldContinue \in BOOLEAN : OnMaxIterationsAnswer(shouldContinue)

\* Sessions in which the host calls chat and interrupt, started without a
\* context file: the file changes the first messages only, and neither
\* clearHistory nor setSessionAutoApprove decides whether a call returns.
FairInit == Init /\ ~hasContext

FairNext ==
    \/ \E key \in BOOLEAN : ChatStart(key)
    \/ interrupt
    \/ LoopStep

\* Every operation chat awaits completes at some time, and onMaxIterations
\* answers true at most MaxContinues times in a session.
FairSpec == FairInit /\ [][FairNext]_vars /\ WF_vars(LoopStep)

\* ------------------------------------------------ a host without a guard
\* Agent.chat does not check whether a call is in progress; the guard is
\* the host's (useAgent.ts sendMessage).  A host without that guard calls
\* chat again while the first call waits for an approval, an executor or a
\* callback.  The backend answers the request of the second call before
\* the operation the first call waits for completes, and it answers with a
\* final message or with status 401; the host makes no other call while
\* that request is pending.  Second calls are explored with the free
\* backend.
firstCall ==
    <<sessionAutoApprove, client, callbacks, readFiles, pc, iteration, batch, idx,
      toolName, toolArgs, canAutoApprove, approval, gate, pendingTools, result,
      outcome, environment, toolLayer, nextId, turns, continues, sincePrompt>>

\* chat(userInput) of the second call up to its request: lines 260-343.
NestedChatStart ==
    /\ pc \in AwaitPoints \ {"awaitBackend"}
    /\ pc2 = "none"
    /\ script = "free"
    /\ client
    /\ events < MaxEvents
    /\ events' = events + 1
    /\ isInterrupted' = FALSE
    /\ messages' = Append(messages, Message("user", "userInput", NoCalls, 0))
    /\ requestCount' = requestCount + 1
    /\ currentAbortController' = "fresh"
    /\ pc2' = "awaitBackend"
    /\ UNCHANGED <<firstCall, onFinalMessageCalls>>

\* The second call's request is answered without tool calls: lines 423-444.
NestedFinal ==
    /\ pc2 = "awaitBackend"
    /\ currentAbortController = "fresh"
    /\ onFinalMessageCalls' = onFinalMessageCalls + 1
    /\ messages' = Append(messages, Message("assistant", "final", NoCalls, 0))
    /\ currentAbortController' = "null"
    /\ pc2' = "none"
    /\ UNCHANGED <<firstCall, isInterrupted, requestCount, events>>

\* The second call's request fails with status 401: lines 490-493.
NestedAuthError ==
    /\ pc2 = "awaitBackend"
    /\ currentAbortController = "fresh"
    /\ currentAbortController' = "null"
    /\ pc2' = "none"
    /\ UNCHANGED <<firstCall, messages, isInterrupted, requestCount, events,
                   onFinalMessageCalls>>

OpenHostNext ==
    \/ pc2 = "none" /\ Next
    \/ NestedChatStart
    \/ NestedFinal
    \/ NestedAuthError

OpenHostSpec == Init /\ [][OpenHostNext]_vars

\* ------------------------------------------------------------- executors
agentState ==
    <<messages, sessionAutoApprove, isInterrupted, currentAbortController, client,
      requestCount, callbacks, pc, iteration, batch, idx, toolName, toolArgs,
      canAutoApprove, approval, gate, pendingTools, result, outcome, environment,
      nextId, turns, events, continues, sincePrompt, pc2, onFinalMessageCalls>>

\* The executors are explored from a freshly created Agent, over the
\* contents /w/f may start with.
ToolInit ==
    /\ AgentCreated
    /\ script = "free"
    /\ ~hasContext
    /\ onToolApproval
    /\ \E content \in InitialContents : files = InitialFiles(content)
    /\ ToolsLoaded

\* readFile(filePath, startLine, endLine): tools.ts 530-581.
readFile(filePath, startLine, endLine) ==
    /\ commandPc = "none"
    /\ toolCalls < MaxToolCalls
    /\ toolCalls' = toolCalls + 1
    /\ LET resolvedPath == resolve(filePath)
           entry == Entry(files, resolvedPath)
           lines == split(entry.content, <<LF>>)
           startIdx == IF startLine - 1 > 0 THEN startLine - 1 ELSE 0
       IN  IF entry.kind = "absent"
           THEN toolResult' = ToolResult(FALSE, "File not found") /\ UNCHANGED readFiles
           ELSE IF entry.kind # "file"
           THEN toolResult' = ToolResult(FALSE, "Path is not a file") /\ UNCHANGED readFiles
           ELSE IF startLine # undefined /\ startIdx >= Len(lines)
           THEN /\ toolResult' = ToolResult(FALSE, "Start line exceeds file length")
                /\ UNCHANGED readFiles
           ELSE /\ readFiles' = readFiles \cup {resolvedPath}
                /\ toolResult' = ToolResult(TRUE, "")
    /\ UNCHANGED <<files, commandState, currentTaskList, agentState>>

\* editFile(filePath, oldText, newText, replaceAll): tools.ts 631-659.
editFile(filePath, oldText, newText, replaceAll) ==
    LET resolvedPath == resolve(filePath)
        entry == Entry(files, resolvedPath)
        originalContent == entry.content
        updatedContent ==
            IF replaceAll THEN join(split(originalContent, oldText), newText)
            ELSE replace(originalContent, oldText, newText)
    IN  IF entry.kind # "file"
        THEN toolResult' = ToolResult(FALSE, "Failed to edit file") /\ UNCHANGED files
        ELSE /\ files' = writeFile(files, filePath, updatedContent)
             /\ toolResult' = ToolResult(TRUE, "")

\* executeToolCall for an edit_file request whose approval is granted:
\* the read-before-edit check of agent.ts 565-575, then executeTool.
EditFileCall(filePath, oldText, newText, replaceAll) ==
    /\ commandPc = "none"
    /\ toolCalls < MaxToolCalls
    /\ toolCalls' = toolCalls + 1
    /\ IF filePath # NoPath /\ ~validateReadBeforeEdit(filePath)
       THEN toolResult' = ToolResult(FALSE, "File must be read before editing")
            /\ UNCHANGED files
       ELSE editFile(filePath, oldText, newText, replaceAll)
    /\ UNCHANGED <<readFiles, commandState, currentTaskList, agentState>>

\* deleteFile(filePath, recursive): tools.ts 664-706.
deleteFile(filePath, recursive) ==
    /\ commandPc = "none"
    /\ toolCalls < MaxToolCalls
    /\ toolCalls' = toolCalls + 1
    /\ LET targetPath == resolve(filePath)
           currentWorkingDir == processCwd
           entry == Entry(files, targetPath)
       IN  IF targetPath = currentWorkingDir
           THEN /\ toolResult' = ToolResult(FALSE, "Cannot delete the root project directory")
                /\ UNCHANGED files
           ELSE IF ~startsWith(PathString(targetPath), PathString(currentWorkingDir))
           THEN /\ toolResult' = ToolResult(FALSE, "Cannot delete files outside the project directory")
                /\ UNCHANGED files
           ELSE IF entry.kind = "absent"
           THEN toolResult' = ToolResult(FALSE, "Path not found") /\ UNCHANGED files
           ELSE IF entry.kind = "dir" /\ ~recursive /\ HasItems(files, targetPath)
           THEN toolResult' = ToolResult(FALSE, "Directory not empty") /\ UNCHANGED files
           ELSE /\ files' = [p \in DOMAIN files |->
                                IF p = targetPath \/ Descendant(targetPath, p)
                                THEN Absent ELSE files[p]]
                /\ toolResult' = ToolResult(TRUE, "")
    /\ UNCHANGED <<readFiles, commandState, currentTaskList, agentState>>

\* executeCommand(command, commandType, workingDirectory) up to execAsync
\* or its early return: tools.ts 1001-1017.  process.chdir throws when
\* the path is not a directory.
executeCommand(commandType, workingDirectory) ==
    /\ commandPc = "none"
    /\ toolCalls < MaxToolCalls
    /\ toolCalls' = toolCalls + 1
    /\ LET wdPath == resolve(workingDirectory)
       IN  IF commandType \notin {"bash", "python", "setup", "run"}
           THEN /\ toolResult' = ToolResult(FALSE, "Invalid command_type")
                /\ UNCHANGED commandState
           ELSE IF workingDirectory = NoPath
           THEN /\ originalCwd' = <<>>
                /\ commandPc' = "running"
                /\ UNCHANGED <<processCwd, toolResult>>
           ELSE IF Entry(files, wdPath).kind = "absent"
           THEN /\ toolResult' = ToolResult(FALSE, "Working directory not found")
                /\ originalCwd' = <<>>
                /\ UNCHANGED <<processCwd, commandPc>>
           ELSE IF Entry(files, wdPath).kind # "dir"
           THEN /\ toolResult' = ToolResult(FALSE, "Failed to execute command")
                /\ originalCwd' = <<processCwd>>
                /\ UNCHANGED <<processCwd, commandPc>>
           ELSE /\ originalCwd' = <<processCwd>>
                /\ processCwd' = wdPath
                /\ commandPc' = "running"
                /\ UNCHANGED toolResult
    /\ UNCHANGED <<files, readFiles, currentTaskList, agentState>>

\* Variant of CommandEnds: the working directory is restored only after a
\* command that succeeded.
CommandEnds_restoresOnSuccess(how) ==
    /\ commandPc = "running"
    /\ commandPc' = "none"
    /\ processCwd' = IF originalCwd # <<>> /\ how = "success"
                     THEN originalCwd[1] ELSE processCwd
    /\ toolResult' = CASE how = "success" -> ToolResult(TRUE, "")
                        [] how = "timeout" -> ToolResult(FALSE, "Command timed out")
                        [] OTHER -> ToolResult(FALSE, "Failed to execute command")
    /\ UNCHANGED <<originalCwd, toolCalls, files, readFiles, currentTaskList, agentState>>

\* execAsync resolves or rejects and executeCommand returns: tools.ts
\* 1019-1049; the finally block restores the working directory.
CommandEnds(how) ==
    /\ commandPc = "running"
    /\ commandPc' = "none"
    /\ processCwd' = IF originalCwd # <<>> THEN originalCwd[1] ELSE processCwd
    /\ toolResult' = CASE how = "success" -> ToolResult(TRUE, "")
                        [] how = "timeout" -> ToolResult(FALSE, "Command timed out")
                        [] OTHER -> ToolResult(FALSE, "Failed to execute command")
    /\ UNCHANGED <<originalCwd, toolCalls, files, readFiles, currentTaskList, agentState>>

\* createTasks(userQuery, tasks): tools.ts 1055-1099.
createTasks(tasks) ==
    /\ commandPc = "none"
    /\ toolCalls < MaxToolCalls
    /\ toolCalls' = toolCalls + 1
    /\ IF \E i \in 1..Len(tasks) : tasks[i].id = ""
       THEN /\ toolResult' = ToolResult(FALSE, "Task missing required fields")
            /\ UNCHANGED currentTaskList
       ELSE /\ currentTaskList' = TaskList(tasks)
            /\ toolResult' = ToolResult(TRUE, "")
    /\ UNCHANGED <<files, readFiles, commandState, agentState>>

\* updateTasks(taskUpdates): tools.ts 1104-1175.  The loop assigns
\* task.status in the stored list as it goes.
updateTasks(taskUpdates) ==
    /\ commandPc = "none"
    /\ toolCalls < MaxToolCalls
    /\ toolCalls' = toolCalls + 1
    /\ IF ~currentTaskList.exists
       THEN /\ toolResult' = ToolResult(FALSE, "No task list exists")
            /\ UNCHANGED currentTaskList
       ELSE LET done == ApplyUpdates(currentTaskList.tasks, taskUpdates)
            IN  /\ currentTaskList' = TaskList(done.tasks)
                /\ toolResult' = ToolResult(done.error = "", done.error)
    /\ UNCHANGED <<files, readFiles, commandState, agentState>>

ToolNext ==
    \/ \E filePath \in PathArgs, startLine \in StartLines, endLine \in EndLines :
          readFile(filePath, startLine, endLine)
    \/ \E filePath \in PathArgs, oldText \in OldTexts, newText \in NewTexts,
          replaceAll \in BOOLEAN : EditFileCall(filePath, oldText, newText, replaceAll)
    \/ \E filePath \in PathArgs, recursive \in BOOLEAN : deleteFile(filePath, recursive)

ToolSpec == ToolInit /\ [][ToolNext]_vars

\* executeTool for execute_command, create_tasks and update_tasks.
CommandNext ==
    \/ \E commandType \in CommandTypes, workingDirectory \in PathArgs :
          executeCommand(commandType, workingDirectory)
    \/ \E how \in CommandOutcomes : CommandEnds(how)
    \/ \E tasks \in TaskLists : createTasks(tasks)
    \/ \E taskUpdates \in TaskUpdateLists : updateTasks(taskUpdates)

CommandSpec == ToolInit /\ [][CommandNext]_vars

TypeOK ==
    /\ pc \in AwaitPoints \cup {"idle", "toolLoop"}
    /\ iteration \in 0..maxIterations
    /\ idx \in 0..(Len(batch) + 1)

\* ------------------------------------------------------------------ claims

\* Every tool-call request of every assistant message of msgs has a
\* tool-role message with its id.
NoDanglingToolCall(msgs) ==
    \A i \in 1..Len(msgs) :
        msgs[i].role = "assistant" =>
            \A k \in 1..Len(msgs[i].tool_calls) :
                \E j \in 1..Len(msgs) :
                    /\ msgs[j].role = "tool"
                    /\ msgs[j].tool_call_id = msgs[i].tool_calls[k]

\* C1: whenever chat issues a backend request, the history it sends has no
\* tool call without a tool-role message of the same id.
C1_NoDanglingAtRequest ==
    [][requestCount' # requestCount => NoDanglingToolCall(messages')]_vars

\* C2: after clearHistory the message list is exactly the system messages
\* the Agent was constructed with.
C2_ClearRestoresInitial ==
    [][clearHistory => messages' = InitialMessages]_vars

\* The name is on neither the approval-required nor the dangerous list.
Unlisted(name) ==
    ~(name[1] = "" /\ name[2] \in APPROVAL_REQUIRED_TOOLS \cup DANGEROUS_TOOLS)

\* The last k messages of the history.
LastMessages(k) == SubSeq(messages, Len(messages) - k + 1, Len(messages))

C4_AutoApproveAsStated ==
    /\ [][\A c \in ToolCallInputs :
            pc = "toolLoop" /\ StripPrefix(c[1])[1] = ""
            /\ StripPrefix(c[1])[2] \in APPROVAL_REQUIRED_TOOLS
            /\ ExecuteToolCall(c[1], c[2])
            => IF sessionAutoApprove
               THEN pc' = "executing" /\ approval' = "notAsked"
               ELSE pc' # "executing"]_vars
    /\ [](pc = "executing" /\ toolName[1] = "" /\ toolName[2] \in APPROVAL_REQUIRED_TOOLS
            /\ ~canAutoApprove => approval = "approved")

\* The call c reaches the approval gate: its arguments parse and, for
\* edit_file with a file_path, the path is in the ReadSet.
ReachesGate(c) ==
    /\ ParseOk(c[2])
    /\ ~(StripPrefix(c[1]) = <<"", "edit_file">> /\ FilePath(c[2]) # NoPath
         /\ resolve(FilePath(c[2])) \notin readFiles)

\* The calls of the approval-required tools.
ApprovalRequiredCalls ==
    {c \in ToolCallInputs :
        StripPrefix(c[1])[1] = "" /\ StripPrefix(c[1])[2] \in APPROVAL_REQUIRED_TOOLS}

\* C4 amended: the same for the approval-required calls that reach the gate.
C4_AutoApproveAtGate ==
    /\ [][pc = "toolLoop" =>
          \A c \in ApprovalRequiredCalls :
            ExecuteToolCall(c[1], c[2]) /\ ReachesGate(c)
            => IF sessionAutoApprove
               THEN /\ pc' = "executing"
                    /\ approval' = "notAsked"
                    /\ canAutoApprove'
                    /\ toolName' = StripPrefix(c[1])
               ELSE /\ pc' # "executing"
                    /\ ~canAutoApprove']_vars
    /\ [](pc = "executing" /\ toolName[1] = "" /\ toolName[2] \in APPROVAL_REQUIRED_TOOLS
            => IF canAutoApprove THEN approval = "notAsked" ELSE approval = "approved")
    /\ [][pc' = "executing" /\ pc # "executing"
            /\ toolName'[1] = "" /\ toolName'[2] \in APPROVAL_REQUIRED_TOOLS
            /\ ~canAutoApprove'
            => pc = "awaitApproval" /\ approval = "pending" /\ toolName' = toolName]_vars

\* edit_file on a read path is executed under standing approval without
\* an approval request.
C4_Witness ==
    /\ pc = "executing"
    /\ toolName = <<"", "edit_file">>
    /\ toolArgs = "{file_path:f1}"
    /\ canAutoApprove
    /\ approval = "notAsked"
    /\ onToolApproval

\* C5: onToolApproval is never invoked for a tool that is on neither list.
C5_UnlistedNeverGated ==
    /\ pc = "awaitApproval" => ~Unlisted(toolName)
    /\ pc = "executing" /\ Unlisted(toolName) => approval = "notAsked"

\* An undeclared tool is handed to executeTool without an approval request
\* although a callback is registered and standing approval is off.
C5_Witness ==
    /\ pc = "executing"
    /\ toolName = <<"", "frobnicate">>
    /\ onToolApproval
    /\ ~sessionAutoApprove
    /\ approval = "notAsked"

\* C6: when the user rejects call k of a batch, the history gains the
\* tool-role message of call k with userRejected and one rejection note,
\* no executor is started and chat returns without another request.
C6_RejectionStopsTurn ==
    [][pc = "awaitApproval" /\ ~isInterrupted /\ approval' = "rejected"
        => /\ messages' = messages \o
                <<Message("tool", "userRejected", NoCalls, batch[idx]),
                  SystemNote("rejectNote")>>
           /\ pc' = "idle"
           /\ requestCount' = requestCount
           /\ batch' = <<>>]_vars

\* The first call of a batch of two was rejected by the user.
C6_Witness ==
    /\ pc = "idle"
    /\ approval = "rejected"
    /\ result = "canceled"
    /\ Len(messages) >= 3
    /\ LastMessages(3)[1].role = "assistant"
    /\ Len(LastMessages(3)[1].tool_calls) = 2
    /\ LastMessages(3)[2] = Message("tool", "userRejected", NoCalls, LastMessages(3)[1].tool_calls[1])
    /\ LastMessages(3)[3] = SystemNote("rejectNote")

\* C7: after interrupt() during the approval wait, any decision the
\* approval resolves to makes the call resolve as userRejected, without
\* executor, and ends the turn.
C7_InterruptBeatsApproval ==
    [][pc = "awaitApproval" /\ isInterrupted /\ approval' \in {"approved", "rejected"}
        => /\ result' = "interrupted"
           /\ messages' = messages \o
                <<Message("tool", "userRejected", NoCalls, batch[idx]),
                  SystemNote("rejectNote")>>
           /\ pc' = "idle"
           /\ batch' = <<>>]_vars

\* The approval answered approved = true after the interruption, and the
\* call was resolved as interrupted.
C7_Witness ==
    /\ pc = "idle"
    /\ approval = "approved"
    /\ result = "interrupted"
    /\ isInterrupted

\* C8: once interrupt() was invoked during a turn, no executor is started
\* and no backend request is issued before chat returns.
C8_NothingAfterInterrupt ==
    [][isInterrupted /\ pc # "idle"
        => /\ requestCount' = requestCount
           /\ ~(pc' = "executing" /\ pc # "executing")
           /\ ~(pc' = "awaitBackend" /\ pc # "awaitBackend")]_vars

\* The turn was interrupted while call 1 of 2 was executing; the call's
\* result was recorded and chat returned.
C8_Witness ==
    /\ pc = "idle"
    /\ isInterrupted
    /\ outcome = "interrupted"
    /\ Len(messages) >= 3
    /\ LastMessages(3)[1].role = "assistant"
    /\ Len(LastMessages(3)[1].tool_calls) = 2
    /\ LastMessages(3)[2] = SystemNote("interruptNote")
    /\ LastMessages(3)[3].role = "tool"

\* C9: when the for-loop has passed the last of the N requests of a batch
\* without rejection or interruption, the history ends with the assistant
\* message followed by N tool-role messages carrying the ids in order.
C9_BatchPairing ==
    pc = "toolLoop" /\ idx > Len(batch) /\ ~isInterrupted
    => /\ Len(messages) > Len(batch)
       /\ LastMessages(Len(batch) + 1)[1] = Message("assistant", "toolCalls", batch, 0)
       /\ \A i \in 1..Len(batch) :
            /\ LastMessages(Len(batch))[i].role = "tool"
            /\ LastMessages(Len(batch))[i].tool_call_id = batch[i]

\* A batch of two is finished whose last call had unparseable arguments.
C9_Witness ==
    /\ pc = "toolLoop"
    /\ Len(batch) = 2
    /\ idx = 3
    /\ ~isInterrupted
    /\ result = "truncated"

\* C10: the ceiling prompt comes after exactly 50 backend requests; the
\* answer true restarts the counter and the requests, the answer false or
\* a missing callback ends the turn.
C10_IterationCeiling ==
    /\ [](pc = "awaitMaxIterations" => sincePrompt = 50 /\ iteration = 50)
    /\ [](sincePrompt <= 50)
    /\ [][pc = "toolLoop" /\ idx > Len(batch) /\ sincePrompt = 50
            => requestCount' = requestCount
               /\ pc' = (IF onMaxIterations THEN "awaitMaxIterations" ELSE "idle")]_vars
    /\ [][pc = "awaitMaxIterations" /\ pc' # "awaitMaxIterations"
            => IF continues' = continues + 1 /\ ~isInterrupted
               THEN /\ iteration' = 0
                    /\ sincePrompt' = 1
                    /\ requestCount' = requestCount + 1
                    /\ pc' = "awaitBackend"
               ELSE /\ pc' = "idle"
                    /\ requestCount' = requestCount]_vars

\* The second prompt of a turn, 100 requests after its start.
C10_Witness ==
    /\ pc = "awaitMaxIterations"
    /\ continues = 1
    /\ requestCount = 100
    /\ ~isInterrupted

\* The stripped name of the call c.
Stripped(c) == StripPrefix(c[1])

\* The call c is one the gate holds back when asked now: a dangerous
\* tool, or an approval-required tool while the session flag is false.
HeldBack(c) ==
    \/ Stripped(c)[1] = "" /\ Stripped(c)[2] \in DANGEROUS_TOOLS
    \/ Stripped(c)[1] = "" /\ Stripped(c)[2] \in APPROVAL_REQUIRED_TOOLS
          /\ ~sessionAutoApprove

\* The turn ends as for a user rejection of batch[idx].
EndsAsRejection ==
    /\ messages' = messages \o
          <<Message("tool", "userRejected", NoCalls, batch[idx]),
            SystemNote("rejectNote")>>
    /\ pc' = "idle"
    /\ requestCount' = requestCount
    /\ batch' = <<>>

\* C11 as stated: without an onToolApproval callback every held-back call
\* resolves to userRejected without its executor, and the turn ends as for
\* a user rejection.
C11_FailClosedAsStated ==
    [][\A c \in ToolCallInputs :
        pc = "toolLoop" /\ ~onToolApproval /\ HeldBack(c) /\ ExecuteToolCall(c[1], c[2])
        => result' = "canceled" /\ EndsAsRejection]_vars

\* C11 amended: the same for the held-back calls that reach the gate; no
\* held-back tool is ever executing when no callback is registered.
C11_FailClosedAtGate ==
    /\ [][\A c \in ToolCallInputs :
            pc = "toolLoop" /\ ~onToolApproval /\ HeldBack(c) /\ ReachesGate(c)
            /\ ExecuteToolCall(c[1], c[2])
            => result' = "canceled" /\ approval' = "notAsked" /\ EndsAsRejection]_vars
    /\ [](pc = "executing" /\ ~onToolApproval
            => /\ ~(toolName[1] = "" /\ toolName[2] \in DANGEROUS_TOOLS)
               /\ (toolName[1] = "" /\ toolName[2] \in APPROVAL_REQUIRED_TOOLS
                     => canAutoApprove))
    /\ [](~onToolApproval => pc # "awaitApproval")

\* The second call of a batch, a dangerous one, was turned down for want
\* of a callback.
C11_Witness ==
    /\ pc = "idle"
    /\ ~onToolApproval
    /\ approval = "notAsked"
    /\ result = "canceled"
    /\ outcome = "rejected"
    /\ Len(messages) >= 4
    /\ LastMessages(4)[1].role = "assistant"
    /\ Len(LastMessages(4)[1].tool_calls) = 2
    /\ LastMessages(4)[3] = Message("tool", "userRejected", NoCalls, LastMessages(4)[1].tool_calls[2])
    /\ LastMessages(4)[4] = SystemNote("rejectNote")

\* C12: on status 401 chat raises at once: onError is not invoked, no
\* request follows and the history is left as it was.
C12_AuthFailureIsFatal ==
    [][BackendAuthError
        => /\ messages' = messages
           /\ pc' = "idle"
           /\ outcome' = "raised"
           /\ requestCount' = requestCount]_vars

\* The request after a tool round failed with 401 although onError is
\* registered; chat has raised.
C12_Witness ==
    /\ pc = "idle"
    /\ outcome = "raised"
    /\ client
    /\ onError
    /\ requestCount >= 2
    /\ LastMessages(1)[1].role = "tool"

\* C16: interrupt() appends one interruption note when it is invoked; the
\* aborted request then makes chat return with the history as it is and
\* without asking onError.
C16_InterruptNoteOnce ==
    /\ [][interrupt => messages' = Append(messages, SystemNote("interruptNote"))]_vars
    /\ [][pc = "awaitBackend" /\ currentAbortController = "aborted" /\ pc' # pc
            => messages' = messages /\ pc' = "idle" /\ requestCount' = requestCount]_vars
    /\ [][pc = "awaitBackend" /\ isInterrupted' /\ ~isInterrupted
            => currentAbortController' = "aborted"]_vars

\* The first request of a turn was interrupted and reported as aborted:
\* the history ends with the user message and the single note.
C16_Witness ==
    /\ pc = "idle"
    /\ outcome = "interrupted"
    /\ isInterrupted
    /\ currentAbortController = "null"
    /\ Len(messages) >= 2
    /\ LastMessages(2)[1].role = "user"
    /\ LastMessages(2)[2] = SystemNote("interruptNote")

\* The positions at which pattern occurs in text.
Occurrences(text, pattern) == {i \in 1..Len(text) : OccursAt(text, pattern, i)}

\* text with its only occurrence of pattern replaced.
WithOnlyOccurrenceReplaced(text, pattern, replacement) ==
    LET i == CHOOSE j \in Occurrences(text, pattern) : TRUE IN
    SubSeq(text, 1, i - 1) \o replacement \o SubSeq(text, i + Len(pattern), Len(text))

\* C13: edit_file on a path that was never read successfully fails and
\* changes no file; a successful read_file, full or ranged, records the
\* path, and edit_file on a recorded path whose file holds old_text exactly
\* once succeeds and replaces that occurrence.
C13_ReadBeforeEdit ==
    /\ [][\A filePath \in PathArgs, oldText \in OldTexts, newText \in NewTexts,
             replaceAll \in BOOLEAN :
            EditFileCall(filePath, oldText, newText, replaceAll)
            => /\ resolve(filePath) \notin readFiles
                    => ~toolResult'.success /\ files' = files
               /\ /\ resolve(filePath) \in readFiles
                  /\ Entry(files, resolve(filePath)).kind = "file"
                  /\ Cardinality(Occurrences(files[resolve(filePath)].content, oldText)) = 1
                  => /\ toolResult'.success
                     /\ files' = [files EXCEPT ![resolve(filePath)] =
                            File(WithOnlyOccurrenceReplaced(@.content, oldText, newText))]]_vars
    /\ [][\A filePath \in PathArgs, startLine \in StartLines, endLine \in EndLines :
            readFile(filePath, startLine, endLine)
            => /\ toolResult'.success => readFiles' = readFiles \cup {resolve(filePath)}
               /\ ~toolResult'.success => readFiles' = readFiles
               /\ Entry(files, resolve(filePath)).kind = "file" /\ startLine \in {undefined, 1}
                    => toolResult'.success]_vars
    /\ [][readFiles' # readFiles
            => \E filePath \in PathArgs, startLine \in StartLines, endLine \in EndLines :
                  readFile(filePath, startLine, endLine)]_vars

\* /w/f was read and then edited: its only "a" became "c".
C13_Witness ==
    /\ toolResult = ToolResult(TRUE, "")
    /\ readFiles = {<<W, F>>}
    /\ files[<<W, F>>] = File(<<"c", "b">>)
    /\ toolCalls = 2

\* C14: edit_file with replace_all = false on a read file that holds
\* old_text two or more times fails and leaves the file as it was.
C14_AmbiguousMatchRejected ==
    [][\A filePath \in PathArgs, oldText \in OldTexts, newText \in NewTexts :
        /\ EditFileCall(filePath, oldText, newText, FALSE)
        /\ resolve(filePath) \in readFiles
        /\ Entry(files, resolve(filePath)).kind = "file"
        /\ Cardinality(Occurrences(files[resolve(filePath)].content, oldText)) >= 2
        => ~toolResult'.success /\ files' = files]_vars

\* The resolved path is the working directory or lies below it.
InsideWorkingDir(p) == p = cwd \/ Descendant(cwd, p)

\* C15: delete_file fails and removes nothing when the resolved path is
\* the working directory or is not below it.
C15_DeleteContained ==
    [][\A filePath \in PathArgs, recursive \in BOOLEAN :
        /\ deleteFile(filePath, recursive)
        /\ resolve(filePath) = cwd \/ ~InsideWorkingDir(resolve(filePath))
        => ~toolResult'.success /\ files' = files]_vars

\* The last message of the history.
Last(msgs) == msgs[Len(msgs)]

\* C17: a response without tool calls makes chat invoke onFinalMessage
\* once, append the text as one assistant message and return without
\* another request; no step invokes onFinalMessage twice, and chat returns
\* with the invocation.
C17_FinalAnswerEndsTurn ==
    /\ [][/\ pc = "awaitBackend"
           /\ Len(messages') = Len(messages) + 1
           /\ Last(messages').role = "assistant"
           /\ Last(messages').tool_calls = NoCalls
           => /\ onFinalMessageCalls' = onFinalMessageCalls + 1
              /\ Last(messages').content = "final"
              /\ pc' = "idle"
              /\ requestCount' = requestCount]_vars
    /\ [][onFinalMessageCalls' # onFinalMessageCalls
            => onFinalMessageCalls' = onFinalMessageCalls + 1 /\ pc' = "idle"]_vars

InFlight ==
    (IF pc = "awaitBackend" THEN 1 ELSE 0) + (IF pc = "executing" THEN 1 ELSE 0)
        + (IF pc2 = "awaitBackend" THEN 1 ELSE 0)

\* C19: at most one backend request or tool execution is in flight,
\* whatever the host calls and when.
C19_SingleInFlight == InFlight <= 1

GoesOnFromNextIteration ==
    /\ iteration' = iteration + 1
    /\ IF iteration + 1 >= maxIterations
       THEN pc' \in {"awaitMaxIterations", "idle"} /\ requestCount' = requestCount
       ELSE IF isInterrupted
       THEN pc' = "idle" /\ requestCount' = requestCount
       ELSE pc' = "awaitBackend" /\ requestCount' = requestCount + 1

\* C21: a failure of the request other than 401 with onError registered
\* leaves the history as it was while onError is awaited, and an answer of
\* retry leaves the history unchanged, adds one to the iteration counter
\* and issues the request again unless the turn was interrupted or the
\* ceiling is reached.
C21_RetryKeepsHistory ==
    [][/\ (pc = "awaitBackend" /\ pc' = "awaitOnError"
            => messages' = messages /\ iteration' = iteration
               /\ requestCount' = requestCount)
       /\ (pc = "awaitOnError" /\ OnErrorAnswer(TRUE)
            => messages' = messages /\ GoesOnFromNextIteration)]_vars

\* The request of a turn failed, onError answered retry and the request was
\* issued a second time over the same history.
C21_Witness ==
    /\ onError
    /\ pc = "awaitBackend"
    /\ iteration = 1
    /\ requestCount = 2
    /\ messages = Append(InitialMessages, Message("user", "userInput", NoCalls, 0))

\* ------------------------------------------------------------------ C22
\* C22: when onError answers do-not-retry, exactly one system note that
\* records the failure is appended to the history and chat returns
\* normally without another backend request.
C22_NoRetryEndsTurn ==
    [][pc = "awaitOnError" /\ OnErrorAnswer(FALSE)
       => /\ messages' = Append(messages, SystemNote("noRetryNote"))
          /\ pc' = "idle"
          /\ outcome' # "raised"
          /\ requestCount' = requestCount]_vars

\* A turn ended by a declined retry after its only request.
C22_Witness ==
    /\ pc = "idle"
    /\ outcome = "error"
    /\ requestCount = 1
    /\ Last(messages) = SystemNote("noRetryNote")

\* ------------------------------------------------------------------ C23
\* C23: without an onError callback, a failure of the request other than
\* 401 appends exactly one system note, adds one to the iteration counter
\* and the loop goes on with another request (unless interrupted or at
\* the ceiling); the turn does not end because of the failure.
C23_NoCallbackKeepsGoing ==
    [][pc = "awaitBackend" /\ ~onError /\ BackendError
       => /\ messages' = Append(messages, SystemNote("errorNote"))
          /\ GoesOnFromNextIteration]_vars

\* Without onError, a request failed and the next request is in flight
\* with the failure note at the end of the history.
C23_Witness ==
    /\ ~onError
    /\ pc = "awaitBackend"
    /\ iteration = 1
    /\ requestCount = 2
    /\ Last(messages) = SystemNote("errorNote")

\* ------------------------------------------------------------------ C24
\* C24: a tool call whose raw arguments do not deserialize returns a
\* failure that is not a rejection, without any approval request or
\* executor; its tool message is appended and the for-loop moves to the
\* next call of the batch, so the turn goes on.
C24_TruncatedCallGoesOn ==
    [][\A name \in ToolNames :
          pc = "toolLoop" /\ ExecuteToolCall(name, "truncated")
          => /\ result' = "truncated"
             /\ ~UserRejected(result')
             /\ approval' = "notAsked"
             /\ messages' = Append(messages, ToolMessage(batch[idx], "truncated"))
             /\ pc' = "toolLoop"
             /\ idx' = idx + 1
             /\ batch' = batch
             /\ readFiles' = readFiles]_vars

\* The only call of a batch had truncated arguments and the loop issued
\* the next backend request after recording its failure.
C24_Witness ==
    /\ pc = "awaitBackend"
    /\ requestCount = 2
    /\ result = "truncated"
    /\ Last(messages) = ToolMessage(nextId - 1, "truncated")

\* ------------------------------------------------------------------ C25
\* EditFileValidator.validateArgs(args).isValid for arguments without
\* replace_all: the parameters are given, the path is an existing file
\* that was read, and old_text occurs in it exactly once.
EditFileValidator(raw) ==
    LET resolvedPath == resolve(FilePath(raw))
        originalContent == Entry(files, resolvedPath).content
    IN  /\ FilePath(raw) # NoPath
        /\ OldText(raw) # <<>>
        /\ Entry(files, resolvedPath).kind = "file"
        /\ resolvedPath \in readFiles
        /\ indexOf(originalContent, OldText(raw)) # 0
        /\ Len(split(originalContent, OldText(raw))) - 1 <= 1

\* C25: an edit_file call that violates an edit precondition returns its
\* failure before the approval gate: the call neither waits for
\* onToolApproval nor starts the executor.
C25_InvalidEditStopsBeforeGate ==
    [][\A c \in ToolCallInputs :
          pc = "toolLoop" /\ Stripped(c) = <<"", "edit_file">> /\ ParseOk(c[2])
          /\ ~EditFileValidator(c[2])
          /\ ExecuteToolCall(c[1], c[2])
          => pc' \notin {"awaitApproval", "executing"}]_vars

\* ------------------------------------------------------------------ C26
\* C26: edit_file on a read file in which old_text does not occur fails
\* and leaves the file as it was.
C26_AbsentOldTextFails ==
    [][\A filePath \in PathArgs, oldText \in OldTexts, newText \in NewTexts,
          replaceAll \in BOOLEAN :
        /\ resolve(filePath) \in readFiles
        /\ Entry(files, resolve(filePath)).kind = "file"
        /\ Occurrences(files[resolve(filePath)].content, oldText) = {}
        /\ EditFileCall(filePath, oldText, newText, replaceAll)
        => ~toolResult'.success /\ files' = files]_vars

\* ------------------------------------------------------------------ C27
\* C27 as stated: a decision that carries the session grant turns the
\* session approval flag on when the gated tool is approval-required and
\* leaves the flag as it was when the gated tool is dangerous.
C27_GrantAsStated ==
    [][\A approved \in BOOLEAN :
          pc = "awaitApproval" /\ ApprovalResolved(approved, TRUE)
          => IF RequiresApproval(toolName)
             THEN sessionAutoApprove'
             ELSE sessionAutoApprove' = sessionAutoApprove]_vars

\* C27: a decision that carries the session grant and resolves while the
\* turn is not interrupted turns the flag on for an approval-required
\* tool and leaves it as it was for a dangerous tool; a decision that
\* resolves after interrupt() leaves the flag as it was.
C27_GrantUnlessInterrupted ==
    [][\A approved \in BOOLEAN :
          pc = "awaitApproval" /\ ApprovalResolved(approved, TRUE)
          => IF RequiresApproval(toolName) /\ ~isInterrupted
             THEN sessionAutoApprove'
             ELSE sessionAutoApprove' = sessionAutoApprove]_vars

\* create_file was held at the gate with the flag off, the user approved,
\* and the executor runs with the flag on.
C27_Witness ==
    /\ pc = "executing"
    /\ toolName = <<"", "create_file">>
    /\ ~canAutoApprove
    /\ approval = "approved"
    /\ sessionAutoApprove
    /\ ~isInterrupted

C29_ChatClearsInterrupt ==
    [][pc = "idle" /\ turns' = turns + 1
       => /\ ~isInterrupted'
          /\ client' => /\ pc' = "awaitBackend"
                         /\ requestCount' = requestCount + 1
                         /\ currentAbortController' = "fresh"]_vars

\* interrupt() was invoked while no turn was in progress, and the chat
\* call that followed has its first request in flight.
C29_Witness ==
    /\ pc = "awaitBackend"
    /\ iteration = 0
    /\ ~isInterrupted
    /\ Len(messages) >= 2
    /\ LastMessages(2) = <<SystemNote("interruptNote"),
                           Message("user", "userInput", NoCalls, 0)>>

\* ------------------------------------------------------------------ C30
\* The ids carried by the tool calls of a message.
CallIds(msg) == {msg.tool_calls[n] : n \in 1..Len(msg.tool_calls)}

\* C30: every tool message follows an assistant message that carries its
\* tool-call id, and only tool messages for earlier calls of that
\* assistant message stand between the two.
C30_ToolMessagesFollowRequest ==
    \A j \in 1..Len(messages) :
        messages[j].role = "tool"
        => \E i \in 1..(j - 1) :
              /\ messages[i].role = "assistant"
              /\ messages[j].tool_call_id \in CallIds(messages[i])
              /\ \A k \in (i + 1)..(j - 1) :
                    /\ messages[k].role = "tool"
                    /\ messages[k].tool_call_id \in CallIds(messages[i])
                    /\ messages[k].tool_call_id < messages[j].tool_call_id

\* The calls whose name carries the prefix.
PrefixedCalls == {c \in ToolCallInputs : c[1][1] = "repo_browser."}

\* C31: a call whose name carries the 'repo_browser.' prefix is handled
\* under its unprefixed name: a dangerous tool never runs without passing
\* the gate, an approval-required tool runs ungated only under standing
\* approval, edit_file of an unread path fails the read-before-edit check,
\* and the tool is looked up by the unprefixed name.
C31_PrefixStripped ==
    [][pc = "toolLoop" =>
       \A c \in PrefixedCalls :
          ExecuteToolCall(c[1], c[2])
          => /\ c[1][2] \in DANGEROUS_TOOLS => pc' # "executing"
             /\ c[1][2] \in DANGEROUS_TOOLS /\ ParseOk(c[2]) /\ onToolApproval
                   => pc' = "awaitApproval"
             /\ c[1][2] \in APPROVAL_REQUIRED_TOOLS /\ ~sessionAutoApprove
                   => pc' # "executing"
             /\ c[1][2] = "edit_file" /\ ParseOk(c[2]) /\ FilePath(c[2]) # NoPath
                /\ resolve(FilePath(c[2])) \notin readFiles
                   => result' = "notRead"
             /\ pc' \in {"awaitApproval", "executing"}
                   => toolName' = <<"", c[1][2]>>]_vars

\* A call named repo_browser.delete_file waits at the approval gate as
\* delete_file.
C31_Witness ==
    /\ pc = "awaitApproval"
    /\ gate.call = <<"repo_browser.", "delete_file">>
    /\ toolName = <<"", "delete_file">>
    /\ approval = "pending"

C33_FailedUpdateChangesNothing ==
    [][\A taskUpdates \in TaskUpdateLists :
          commandPc = "none" /\ updateTasks(taskUpdates) /\ ~toolResult'.success
          => currentTaskList' = currentTaskList]_vars

\* C34: the ceiling prompt onMaxIterations is invoked only in a turn that
\* interrupt() has not been invoked in.
C34_NoPromptAfterInterrupt ==
    [][pc # "awaitMaxIterations" /\ pc' = "awaitMaxIterations" => ~isInterrupted]_vars

\* C35: a decision that resolves after interrupt() was invoked during the
\* wait for onToolApproval leaves the session approval flag as it was,
\* whatever the decision carries.
C35_InterruptedDecisionKeepsFlag ==
    [][pc = "awaitApproval" /\ isInterrupted /\ approval' \in {"approved", "rejected"}
       => sessionAutoApprove' = sessionAutoApprove]_vars

\* An approval of edit_file or create_file with the session grant resolved
\* after the interruption: the turn ended and the flag is still off.
C35_Witness ==
    /\ pc = "idle"
    /\ result = "interrupted"
    /\ approval = "approved"
    /\ gate.call[2] \in APPROVAL_REQUIRED_TOOLS
    /\ gate.autoApproveSession
    /\ isInterrupted
    /\ ~sessionAutoApprove

\* C36: a step of the loop that turns the session approval flag on is an
\* approval decision with approved = true (setSessionAutoApprove, the
\* host's own setter, is no step of the loop).
C36_OnlyApprovalTurnsFlagOn ==
    [][~sessionAutoApprove /\ sessionAutoApprove' /\ pc' # pc
       => pc = "awaitApproval" /\ approval' = "approved"]_vars

\* C37: every onToolStart is followed by its onToolEnd before the next
\* onToolStart and before chat returns: at most one call is started and
\* not ended, and only while executeToolCall awaits the approval or the
\* executor.
C37_EveryStartHasItsEnd ==
    /\ pendingTools <= 1
    /\ pc \notin {"awaitApproval", "executing"} => pendingTools = 0

\* C38: the requests issued since the turn started or since the last
\* ceiling prompt answered with true never exceed 50, and each of them is
\* one iteration of the loop, whether it ended in tool calls, in a retried
\* failure or in a failure recorded without asking.
C38_RequestsPerWindow ==
    /\ sincePrompt <= maxIterations
    /\ pc # "idle" => sincePrompt \in {iteration, iteration + 1}

\* Fifty failed requests, each retried, have brought the loop to the
\* ceiling prompt.
C38_Witness ==
    /\ script = "alwaysFail"
    /\ pc = "awaitMaxIterations"
    /\ sincePrompt = maxIterations
    /\ continues = 0

\* C39: every chat call returns or raises, whatever the backend answers,
\* when every operation it awaits completes and onMaxIterations, if it is
\* registered, ends up answering false.
C39_ChatReturns == (pc # "idle") ~> (pc = "idle")

\* A turn against a backend that always returns tool calls has returned
\* after the ceiling prompt was answered with true, then with false.
C39_Witness ==
    /\ script = "alwaysToolCall"
    /\ pc = "idle"
    /\ turns > 0
    /\ continues > 0
    /\ outcome = "maxIterations"

====
